---- MODULE Spec2Model ----
(***************************************************************************)
(* FullReportModel (covid19br/common/models/full_report.py): one report    *)
(* per state and reference date.  Bulletins are ingested one at a time by  *)
(* add_new_bulletin; the report keeps at most one bulletin per county, the *)
(* imported/undefined bulletin, the official totals, an automatic sum, and *)
(* the warnings raised while assembling the report.                        *)
(*                                                                         *)
(* The bulletin classes (bulletin_models.py), the warning class            *)
(* (warnings.py) and the enums (constants.py) are not part of the source   *)
(* at hand; their operations are modelled from the written specification.  *)
(***************************************************************************)
EXTENDS Integers, Sequences, FiniteSets, TLC

(***************************************************************************)
(* Bounds of the model.                                                    *)
(***************************************************************************)
\* counts reported by a bulletin range over 0..MaxVal
MaxVal == 1
\* number of calls (add_new_bulletin, warnings_slug) made on one report
MaxOps == 3
\* number of calls where reads of warnings_slug come in between
MaxSlugOps == 4

(***************************************************************************)
(* Values.                                                                 *)
(***************************************************************************)
\* Optional[int] without a value
None == -1

Vals == 0..MaxVal
OptVals == Vals \cup {None}

\* county names, listed in ascending order
Cities == {"Acrelandia", "Bujari"}

\* ReportQuality
Qualities == {"COUNTY_BULLETINS", "UNDEFINED_OR_IMPORTED_CASES", "ONLY_TOTAL"}

\* WarningType, in ascending order of the slug strings
WarningOrder ==
    << "MISSING_CONFIRMED_CASES", "MISSING_COUNTY_BULLETINS", "MISSING_DEATHS",
       "MISSING_IMPORTED_UNDEFINED_CASES", "NO_OFFICIAL_TOTAL", "ONLY_TOTAL",
       "SOURCES_DONT_MATCH", "TOTAL_DONT_MATCH" >>

WarningTypes == {WarningOrder[i] : i \in DOMAIN WarningOrder}

\* the source tags the constructor gives its two placeholder bulletins
AutoSource == "Soma automatica"
NotFoundSource == "Nao encontrada"
\* the source tag of the bulletins the scrapers hand in
ScraperSource == "fonte"

(***************************************************************************)
(* Bulletins.                                                              *)
(***************************************************************************)
Bulletin(k, c, cc, d, s) ==
    [kind |-> k, city |-> c, confirmed_cases |-> cc, deaths |-> d, source |-> s]

\* no object: a missing dictionary key, the None of Optional[...]
NoBulletin == Bulletin("none", "", None, None, "")

CountyBulletinModel(c, cc, d) == Bulletin("county", c, cc, d, ScraperSource)
ImportedUndefinedBulletinModel(cc, d, s) == Bulletin("imported", "", cc, d, s)
StateTotalBulletinModel(cc, d, s) == Bulletin("total", "", cc, d, s)
\* an argument that is none of the three bulletin classes
OtherObject == Bulletin("other", "", None, None, ScraperSource)

has_confirmed_cases(b) == b.confirmed_cases # None
has_deaths(b) == b.deaths # None
is_empty(b) == ~has_confirmed_cases(b) /\ ~has_deaths(b)
is_complete(b) == has_confirmed_cases(b) /\ has_deaths(b)

\* value equality of two county bulletins
BulletinEq(a, b) ==
    /\ a.kind = b.kind
    /\ a.city = b.city
    /\ a.confirmed_cases = b.confirmed_cases
    /\ a.deaths = b.deaths

\* fills the fields the receiver lacks, overwrites none it has
merge_data(self, other) ==
    [self EXCEPT
        !.confirmed_cases = IF @ = None THEN other.confirmed_cases ELSE @,
        !.deaths = IF @ = None THEN other.deaths ELSE @]

increase_confirmed_cases(t, v) ==
    [t EXCEPT !.confirmed_cases = IF @ = None THEN v ELSE @ + v]
increase_deaths(t, v) ==
    [t EXCEPT !.deaths = IF @ = None THEN v ELSE @ + v]
decrease_confirmed_cases(t, v) ==
    [t EXCEPT !.confirmed_cases = IF @ = None THEN @ ELSE @ - v]
decrease_deaths(t, v) ==
    [t EXCEPT !.deaths = IF @ = None THEN @ ELSE @ - v]

\* hash(bulletin) of a county bulletin: the county it is about
bulletin_key(b) == b.city

(***************************************************************************)
(* The arguments the calls are made with.                                  *)
(***************************************************************************)
CountyInputs == {CountyBulletinModel(c, cc, d) : c \in Cities, cc \in OptVals, d \in OptVals}
ImportedInputs == {ImportedUndefinedBulletinModel(cc, d, ScraperSource) : cc \in OptVals, d \in OptVals}
TotalInputs == {StateTotalBulletinModel(cc, d, ScraperSource) : cc \in OptVals, d \in OptVals}
Inputs == CountyInputs \cup ImportedInputs \cup TotalInputs \cup {OtherObject}

(***************************************************************************)
(* State.                                                                  *)
(***************************************************************************)
VARIABLES
    status,                                 \* "new", "ready" or "failed" (BadReportError)
    qualities,                              \* the constructor's argument, _expected_qualities
    county_bulletins,                       \* _county_bulletins: key -> bulletin
    county_keys,                            \* the keys of _county_bulletins, in dict order
    undefined_or_imported_cases_bulletin,
    official_total_bulletins,               \* _official_total_bulletins
    auto_calculated_total,                  \* _auto_calculated_total
    warnings,                               \* _warnings, by slug
    slug,                                   \* what the last warnings_slug read returned
    last,                                   \* the last call: its name, argument, popped
                                            \* bulletin, the call before it, and the
                                            \* reads of warnings_slug so far
    nOps                                    \* calls made so far

vars == << status, qualities, county_bulletins, county_keys,
           undefined_or_imported_cases_bulletin,
           official_total_bulletins, auto_calculated_total, warnings, slug, last, nOps >>

report == << county_bulletins, county_keys, undefined_or_imported_cases_bulletin,
             official_total_bulletins, auto_calculated_total, warnings >>

Call(op, arg, existent) ==
    [op |-> op, arg |-> arg, existent |-> existent, prev |-> last.op,
     reads |-> IF op = "slug" THEN last.reads + 1 ELSE last.reads]

Init ==
    /\ status = "new"
    /\ qualities \in SUBSET Qualities
    /\ county_bulletins = [c \in Cities |-> NoBulletin]
    /\ county_keys = << >>
    /\ undefined_or_imported_cases_bulletin = NoBulletin
    /\ official_total_bulletins = << >>
    /\ auto_calculated_total = NoBulletin
    /\ warnings = {}
    /\ slug = ""
    /\ last = [op |-> "none", arg |-> NoBulletin, existent |-> NoBulletin,
               prev |-> "none", reads |-> 0]
    /\ nOps = 0

\* __init__ without the check of its qualities argument
Construct_NoCheck ==
    /\ status = "new"
    /\ status' = "ready"
    /\ county_bulletins' = [c \in Cities |-> NoBulletin]
    /\ county_keys' = << >>
    /\ warnings' = {}
    /\ official_total_bulletins' = << >>
    /\ auto_calculated_total' = StateTotalBulletinModel(None, None, AutoSource)
    /\ undefined_or_imported_cases_bulletin' =
           ImportedUndefinedBulletinModel(None, None, NotFoundSource)
    /\ last' = Call("init", NoBulletin, NoBulletin)
    /\ UNCHANGED << qualities, slug, nOps >>

(***************************************************************************)
(* __init__                                                                *)
(***************************************************************************)
Construct ==
    /\ status = "new"
    /\ IF qualities = {}
       THEN /\ status' = "failed"
            /\ UNCHANGED report
       ELSE /\ status' = "ready"
            /\ county_bulletins' = [c \in Cities |-> NoBulletin]
            /\ county_keys' = << >>
            /\ warnings' = {}
            /\ official_total_bulletins' = << >>
            /\ auto_calculated_total' = StateTotalBulletinModel(None, None, AutoSource)
            /\ undefined_or_imported_cases_bulletin' =
                   ImportedUndefinedBulletinModel(None, None, NotFoundSource)
    /\ last' = Call("init", NoBulletin, NoBulletin)
    /\ UNCHANGED << qualities, slug, nOps >>

(***************************************************************************)
(* Read-only properties.                                                   *)
(***************************************************************************)
\* total_bulletin taking the latest official total
total_bulletin_Latest ==
    IF official_total_bulletins # << >>
    THEN official_total_bulletins[Len(official_total_bulletins)]
    ELSE auto_calculated_total

total_bulletin ==
    IF official_total_bulletins # << >>
    THEN official_total_bulletins[1]
    ELSE auto_calculated_total

has_undefined_or_imported_cases ==
    /\ undefined_or_imported_cases_bulletin # NoBulletin
    /\ ~is_empty(undefined_or_imported_cases_bulletin)

\* check_total_death_cases reading the automatic total's confirmed cases
check_total_death_cases_WrongField ==
    IF official_total_bulletins = << >>
    THEN FALSE
    ELSE \A i \in DOMAIN official_total_bulletins :
             auto_calculated_total.confirmed_cases = official_total_bulletins[i].deaths

check_total_death_cases ==
    IF official_total_bulletins = << >>
    THEN FALSE
    ELSE \A i \in DOMAIN official_total_bulletins :
             auto_calculated_total.deaths = official_total_bulletins[i].deaths

\* check_total_confirmed_cases with any() in place of all()
check_total_confirmed_cases_Any ==
    IF official_total_bulletins = << >>
    THEN FALSE
    ELSE \E i \in DOMAIN official_total_bulletins :
             auto_calculated_total.confirmed_cases =
                 official_total_bulletins[i].confirmed_cases

check_total_confirmed_cases ==
    IF official_total_bulletins = << >>
    THEN FALSE
    ELSE \A i \in DOMAIN official_total_bulletins :
             auto_calculated_total.confirmed_cases =
                 official_total_bulletins[i].confirmed_cases

(***************************************************************************)
(* _pop_county_bulletin: the automatic total once the popped bulletin's    *)
(* contribution is taken out of it.                                        *)
(***************************************************************************)
\* the popped bulletin's counts taken out of the sum twice
PopTotal_Twice(existent, total) ==
    IF existent = NoBulletin
    THEN total
    ELSE LET t1 == IF has_confirmed_cases(existent)
                   THEN decrease_confirmed_cases(total, 2 * existent.confirmed_cases)
                   ELSE total
         IN  IF has_deaths(existent) THEN decrease_deaths(t1, 2 * existent.deaths) ELSE t1

\* _pop_county_bulletin subtracting nothing
PopTotal_NoSubtract(existent, total) == total

\* _pop_county_bulletin subtracting only what a complete bulletin added
PopTotal_OnlyComplete(existent, total) ==
    IF existent = NoBulletin \/ ~is_complete(existent)
    THEN total
    ELSE decrease_deaths(decrease_confirmed_cases(total, existent.confirmed_cases),
                         existent.deaths)

PopTotal(existent, total) ==
    IF existent = NoBulletin
    THEN total
    ELSE LET t1 == IF has_confirmed_cases(existent)
                   THEN decrease_confirmed_cases(total, existent.confirmed_cases)
                   ELSE total
         IN  IF has_deaths(existent) THEN decrease_deaths(t1, existent.deaths) ELSE t1

(***************************************************************************)
(* _compare_county_bulletins_and_return_the_completest                     *)
(***************************************************************************)
\* the comparison placed after the early return of a complete existent bulletin
SourcesDontMatch_AfterReturn(existent, new) ==
    /\ ~BulletinEq(existent, new)
    /\ ~is_complete(existent)
    /\ \/ has_deaths(existent) /\ has_deaths(new) /\ existent.deaths # new.deaths
       \/ has_confirmed_cases(existent) /\ has_confirmed_cases(new)
              /\ existent.confirmed_cases # new.confirmed_cases

\* whether the comparison adds the SOURCES_DONT_MATCH warning
SourcesDontMatch(existent, new) ==
    LET both_have_deaths == has_deaths(existent) /\ has_deaths(new)
        both_have_confirmed_cases ==
            has_confirmed_cases(existent) /\ has_confirmed_cases(new)
    IN  /\ ~BulletinEq(existent, new)
        /\ \/ both_have_deaths /\ existent.deaths # new.deaths
           \/ both_have_confirmed_cases
                  /\ existent.confirmed_cases # new.confirmed_cases

\* the comparison keeping the bulletin that came last
Completest_Latest(existent, new) == new

\* the two completeness tests in the other order
Completest_NewFirst(existent, new) ==
    IF BulletinEq(existent, new) THEN existent
    ELSE IF is_complete(new) THEN new
    ELSE IF is_complete(existent) THEN existent
    ELSE merge_data(existent, new)

\* the bulletin it returns
Completest(existent, new) ==
    IF BulletinEq(existent, new) THEN existent
    ELSE IF is_complete(existent) THEN existent
    ELSE IF is_complete(new) THEN new
    ELSE merge_data(existent, new)

(***************************************************************************)
(* add_new_bulletin                                                        *)
(***************************************************************************)
\* the tail of add_new_bulletin: the stored bulletin's counts go into the sum
AddToTotal(bulletin, total) ==
    LET t1 == IF has_confirmed_cases(bulletin)
              THEN increase_confirmed_cases(total, bulletin.confirmed_cases)
              ELSE total
    IN  IF has_deaths(bulletin) THEN increase_deaths(t1, bulletin.deaths) ELSE t1

add_warning(w, kind) == w \cup {kind}

AddCounty(bulletin) ==
    LET key == bulletin_key(bulletin)
        existent == county_bulletins[key]
        popped == PopTotal(existent, auto_calculated_total)
        stored == IF existent # NoBulletin THEN Completest(existent, bulletin) ELSE bulletin
    IN  /\ county_bulletins' = [county_bulletins EXCEPT ![key] = stored]
        /\ county_keys' = Append(SelectSeq(county_keys, LAMBDA k : k # key), key)
        /\ warnings' = IF existent # NoBulletin /\ SourcesDontMatch(existent, bulletin)
                       THEN add_warning(warnings, "SOURCES_DONT_MATCH")
                       ELSE warnings
        /\ auto_calculated_total' = AddToTotal(stored, popped)
        /\ last' = Call("add", bulletin, existent)
        /\ UNCHANGED << undefined_or_imported_cases_bulletin, official_total_bulletins >>

\* the imported/undefined branch taking the replaced bulletin out of the sum
AddImported_Replacing(bulletin) ==
    /\ undefined_or_imported_cases_bulletin' = bulletin
    /\ auto_calculated_total' =
           AddToTotal(bulletin,
                      PopTotal(undefined_or_imported_cases_bulletin, auto_calculated_total))
    /\ last' = Call("add", bulletin, NoBulletin)
    /\ UNCHANGED << county_bulletins, county_keys, official_total_bulletins, warnings >>

AddImported(bulletin) ==
    /\ undefined_or_imported_cases_bulletin' = bulletin
    /\ auto_calculated_total' = AddToTotal(bulletin, auto_calculated_total)
    /\ last' = Call("add", bulletin, NoBulletin)
    /\ UNCHANGED << county_bulletins, county_keys, official_total_bulletins, warnings >>

\* the official total put in front of the ones already there
AddTotal_Prepend(bulletin) ==
    /\ official_total_bulletins' =
           IF ~is_empty(bulletin)
           THEN << bulletin >> \o official_total_bulletins
           ELSE official_total_bulletins
    /\ last' = Call("add", bulletin, NoBulletin)
    /\ UNCHANGED << county_bulletins, county_keys, undefined_or_imported_cases_bulletin,
                    auto_calculated_total, warnings >>

\* the official total appended without the test of is_empty
AddTotal_NoEmptyTest(bulletin) ==
    /\ official_total_bulletins' = Append(official_total_bulletins, bulletin)
    /\ last' = Call("add", bulletin, NoBulletin)
    /\ UNCHANGED << county_bulletins, county_keys, undefined_or_imported_cases_bulletin,
                    auto_calculated_total, warnings >>

AddTotal(bulletin) ==
    /\ official_total_bulletins' =
           IF ~is_empty(bulletin)
           THEN Append(official_total_bulletins, bulletin)
           ELSE official_total_bulletins
    /\ last' = Call("add", bulletin, NoBulletin)
    /\ UNCHANGED << county_bulletins, county_keys, undefined_or_imported_cases_bulletin,
                    auto_calculated_total, warnings >>

\* the last branch taking the object for an imported/undefined bulletin
AddOther_Stored(bulletin) ==
    /\ undefined_or_imported_cases_bulletin' = bulletin
    /\ last' = Call("add", bulletin, NoBulletin)
    /\ UNCHANGED << county_bulletins, county_keys, official_total_bulletins,
                    auto_calculated_total, warnings >>

AddOther(bulletin) ==
    /\ last' = Call("add", bulletin, NoBulletin)
    /\ UNCHANGED report

add_new_bulletin(bulletin) ==
    /\ status = "ready"
    /\ nOps' = nOps + 1
    /\ CASE bulletin.kind = "county" -> AddCounty(bulletin)
         [] bulletin.kind = "imported" -> AddImported(bulletin)
         [] bulletin.kind = "total" -> AddTotal(bulletin)
         [] OTHER -> AddOther(bulletin)
    /\ UNCHANGED << status, qualities, slug >>

\* the automatic detection without the test of an empty automatic total
DetectedWarnings_NoEmptyTest ==
    {k \in WarningTypes :
        \/ /\ k = "MISSING_COUNTY_BULLETINS"
           /\ "COUNTY_BULLETINS" \in qualities
           /\ \A c \in Cities : county_bulletins[c] = NoBulletin
        \/ /\ k = "MISSING_IMPORTED_UNDEFINED_CASES"
           /\ "UNDEFINED_OR_IMPORTED_CASES" \in qualities
           /\ ~has_undefined_or_imported_cases
        \/ /\ k = "ONLY_TOTAL"
           /\ "ONLY_TOTAL" \in qualities
        \/ /\ k = "MISSING_CONFIRMED_CASES"
           /\ ~has_confirmed_cases(total_bulletin)
        \/ /\ k = "MISSING_DEATHS"
           /\ ~has_deaths(total_bulletin)
        \/ /\ k = "NO_OFFICIAL_TOTAL"
           /\ official_total_bulletins = << >>
        \/ /\ k = "TOTAL_DONT_MATCH"
           /\ official_total_bulletins # << >>
           /\ (~check_total_confirmed_cases \/ ~check_total_death_cases)}

(***************************************************************************)
(* _auto_detect_warnings: the warning types one pass adds.                 *)
(***************************************************************************)
DetectedWarnings ==
    {k \in WarningTypes :
        \/ /\ k = "MISSING_COUNTY_BULLETINS"
           /\ "COUNTY_BULLETINS" \in qualities
           /\ \A c \in Cities : county_bulletins[c] = NoBulletin
        \/ /\ k = "MISSING_IMPORTED_UNDEFINED_CASES"
           /\ "UNDEFINED_OR_IMPORTED_CASES" \in qualities
           /\ ~has_undefined_or_imported_cases
        \/ /\ k = "ONLY_TOTAL"
           /\ "ONLY_TOTAL" \in qualities
        \/ /\ k = "MISSING_CONFIRMED_CASES"
           /\ ~has_confirmed_cases(total_bulletin)
        \/ /\ k = "MISSING_DEATHS"
           /\ ~has_deaths(total_bulletin)
        \/ /\ k = "NO_OFFICIAL_TOTAL"
           /\ official_total_bulletins = << >>
        \/ /\ k = "TOTAL_DONT_MATCH"
           /\ official_total_bulletins # << >>
           /\ ~is_empty(auto_calculated_total)
           /\ (~check_total_confirmed_cases \/ ~check_total_death_cases)}

(***************************************************************************)
(* warnings_slug                                                           *)
(***************************************************************************)
\* the slugs joined in descending order
Sorted_Not(w) ==
    SelectSeq([i \in DOMAIN WarningOrder |-> WarningOrder[Len(WarningOrder) + 1 - i]],
              LAMBDA k : k \in w)

\* sorted(set of slugs)
Sorted(w) == SelectSeq(WarningOrder, LAMBDA k : k \in w)

RECURSIVE Join(_, _)
\* sep.join(seq)
Join(sep, seq) ==
    IF seq = << >> THEN ""
    ELSE IF Len(seq) = 1 THEN seq[1]
    ELSE seq[1] \o sep \o Join(sep, Tail(seq))

\* warnings_slug without the early return of the empty string
SlugOf_NoEarlyReturn(w) == "__" \o Join("__", Sorted(w))

SlugOf(w) == IF w = {} THEN "" ELSE "__" \o Join("__", Sorted(w))

\* the read keeping only the warnings its own detection finds
warnings_slug_Fresh ==
    /\ status = "ready"
    /\ nOps' = nOps + 1
    /\ warnings' = DetectedWarnings
    /\ slug' = SlugOf(warnings')
    /\ last' = Call("slug", NoBulletin, NoBulletin)
    /\ UNCHANGED << status, qualities, county_bulletins, county_keys,
                    undefined_or_imported_cases_bulletin, official_total_bulletins,
                    auto_calculated_total >>

warnings_slug ==
    /\ status = "ready"
    /\ nOps' = nOps + 1
    /\ warnings' = warnings \cup DetectedWarnings
    /\ slug' = SlugOf(warnings')
    /\ last' = Call("slug", NoBulletin, NoBulletin)
    /\ UNCHANGED << status, qualities, county_bulletins, county_keys,
                    undefined_or_imported_cases_bulletin, official_total_bulletins,
                    auto_calculated_total >>

(***************************************************************************)
(* to_csv_rows                                                             *)
(***************************************************************************)
\* the county names in ascending order
CityOrder == << "Acrelandia", "Bujari" >>
CityRank(c) == CHOOSE i \in DOMAIN CityOrder : CityOrder[i] = c

\* the property county_bulletins: the dictionary's values, in its order
county_bulletins_list ==
    [i \in DOMAIN county_keys |-> county_bulletins[county_keys[i]]]

\* a row of the csv: the bulletin's place and its counts
to_csv_row(b) ==
    [municipio |-> CASE b.kind = "county" -> b.city
                     [] b.kind = "imported" -> "Importados/Indefinidos"
                     [] OTHER -> "TOTAL NO ESTADO",
     confirmados |-> b.confirmed_cases,
     mortes |-> b.deaths]

RECURSIVE InsertByCity(_, _)
InsertByCity(b, seq) ==
    IF seq = << >> THEN << b >>
    ELSE IF CityRank(b.city) < CityRank(Head(seq).city) THEN << b >> \o seq
    ELSE << Head(seq) >> \o InsertByCity(b, Tail(seq))

RECURSIVE SortedByCity(_)
\* sorted(seq, key=lambda x: x.city)
SortedByCity(seq) ==
    IF seq = << >> THEN << >>
    ELSE InsertByCity(seq[Len(seq)], SortedByCity(SubSeq(seq, 1, Len(seq) - 1)))

RowsOf(counties) ==
    LET kept == SelectSeq(counties, LAMBDA b : ~is_empty(b))
    IN  [i \in DOMAIN kept |-> to_csv_row(kept[i])]
            \o << to_csv_row(undefined_or_imported_cases_bulletin) >>
            \o << to_csv_row(total_bulletin) >>

\* to_csv_rows looping over the county bulletins in dictionary order
to_csv_rows_Unsorted == RowsOf(county_bulletins_list)

to_csv_rows == RowsOf(SortedByCity(county_bulletins_list))

(***************************************************************************)
(* Specifications.  Each bounds the number of calls made on one report.    *)
(***************************************************************************)
\* every kind of argument, and reads of warnings_slug, in any order
Next ==
    \/ Construct
    \/ nOps < MaxOps /\ \E b \in Inputs : add_new_bulletin(b)
    \/ nOps < MaxOps /\ warnings_slug

Spec == Init /\ [][Next]_vars

\* county bulletins only
NextCounty ==
    \/ Construct
    \/ nOps < MaxOps /\ \E b \in CountyInputs : add_new_bulletin(b)

SpecCounty == Init /\ [][NextCounty]_vars

\* imported/undefined bulletins and official totals: the sum against the totals
NextTotals ==
    \/ Construct
    \/ nOps < MaxOps /\ \E b \in ImportedInputs \cup TotalInputs : add_new_bulletin(b)

SpecTotals == Init /\ [][NextTotals]_vars

\* one more call, over fewer arguments: bulletins of one county, of the
\* imported/undefined cases and of the total whose fields are absent or MaxVal,
\* one county bulletin of zeros that disagrees with them, and an object that
\* is no bulletin; reads of warnings_slug in between
SlugVals == {None, MaxVal}
SlugInputs ==
    {b \in Inputs : /\ b.city \in {"", "Acrelandia"}
                    /\ b.confirmed_cases \in SlugVals
                    /\ b.deaths \in SlugVals}
        \cup {CountyBulletinModel("Acrelandia", 0, 0)}

NextSlug ==
    \/ Construct
    \/ nOps < MaxSlugOps /\ \E b \in SlugInputs : add_new_bulletin(b)
    \/ nOps < MaxSlugOps /\ warnings_slug

SpecSlug == Init /\ [][NextSlug]_vars

\* every kind of argument for both counties, with fields absent or MaxVal, a
\* county bulletin of zeros for each county, and reads of warnings_slug
MixedInputs ==
    {b \in Inputs : b.confirmed_cases \in SlugVals /\ b.deaths \in SlugVals}
        \cup {CountyBulletinModel(c, 0, 0) : c \in Cities}

NextMixed ==
    \/ Construct
    \/ nOps < MaxOps /\ \E b \in MixedInputs : add_new_bulletin(b)
    \/ nOps < MaxOps /\ warnings_slug

SpecMixed == Init /\ [][NextMixed]_vars

(***************************************************************************)
(* Properties.                                                             *)
(***************************************************************************)
ValOf(v) == IF v = None THEN 0 ELSE v

RECURSIVE SumOver(_, _)
\* f summed over the set S
SumOver(f(_), S) ==
    IF S = {} THEN 0
    ELSE LET x == CHOOSE y \in S : TRUE IN f(x) + SumOver(f, S \ {x})

StoredCounties == {c \in Cities : county_bulletins[c] # NoBulletin}

StoredConfirmedCases ==
    LET cc(c) == ValOf(county_bulletins[c].confirmed_cases)
    IN  SumOver(cc, StoredCounties)
StoredDeaths ==
    LET d(c) == ValOf(county_bulletins[c].deaths)
    IN  SumOver(d, StoredCounties)

\* the last call was add_new_bulletin with a county bulletin
CountyCall == last.op = "add" /\ last.arg.kind = "county"
\* ... for a county that had a stored bulletin
Collision == CountyCall /\ last.existent # NoBulletin

\* C1: in every state reached by add_new_bulletin calls of any kind, each
\* field of the automatic total is the sum of that field over the stored
\* county bulletins plus the stored imported/undefined bulletin.
C1_TotalIsSumOfStored ==
    status = "ready" =>
        /\ ValOf(auto_calculated_total.confirmed_cases) =
               StoredConfirmedCases
                   + ValOf(undefined_or_imported_cases_bulletin.confirmed_cases)
        /\ ValOf(auto_calculated_total.deaths) =
               StoredDeaths + ValOf(undefined_or_imported_cases_bulletin.deaths)

\* C2: when only county bulletins are ingested, after each call each field
\* of the automatic total is the sum of that field over the county bulletins
\* stored at that moment (a second bulletin for a county replaces the
\* first one's contribution, it is not added to it).
C2_CountyTotalIsSum ==
    status = "ready" =>
        /\ ValOf(auto_calculated_total.confirmed_cases) = StoredConfirmedCases
        /\ ValOf(auto_calculated_total.deaths) = StoredDeaths
        /\ has_confirmed_cases(auto_calculated_total) <=>
               \E c \in StoredCounties : has_confirmed_cases(county_bulletins[c])
        /\ has_deaths(auto_calculated_total) <=>
               \E c \in StoredCounties : has_deaths(county_bulletins[c])

\* a county with a partial bulletin took a second bulletin with counts of
\* its own, while the other county is stored too
C2_Witness ==
    /\ Collision
    /\ StoredCounties = Cities
    /\ ~is_complete(last.existent)
    /\ ValOf(last.existent.confirmed_cases) > 0
    /\ ValOf(last.arg.confirmed_cases) > 0
    /\ ValOf(last.arg.deaths) > 0
    /\ ValOf(auto_calculated_total.confirmed_cases) = StoredConfirmedCases

\* C3: constructing a report with an empty set of qualities fails and leaves
\* nothing to call; with a non-empty set it succeeds, and the report then has
\* no county bulletin, no official total, no warning, an empty automatic
\* total and an empty placeholder imported/undefined bulletin.
C3_Construction ==
    /\ status = "failed" => qualities = {} /\ nOps = 0 /\ ~ENABLED Next
    /\ status = "ready" => qualities # {}
    /\ last.op = "init" /\ qualities = {} => status = "failed"
    /\ last.op = "init" /\ qualities # {} =>
           /\ status = "ready"
           /\ StoredCounties = {}
           /\ official_total_bulletins = << >>
           /\ warnings = {}
           /\ auto_calculated_total.kind = "total"
           /\ is_empty(auto_calculated_total)
           /\ undefined_or_imported_cases_bulletin.kind = "imported"
           /\ is_empty(undefined_or_imported_cases_bulletin)
           /\ undefined_or_imported_cases_bulletin.source = NotFoundSource

\* a report just constructed with two qualities
C3_Witness ==
    /\ last.op = "init"
    /\ status = "ready"
    /\ Cardinality(qualities) = 2
    /\ is_empty(auto_calculated_total)

\* C4: total_bulletin is the first official total whenever there is one,
\* whatever the automatic total holds, and it is the automatic total exactly
\* when no official total has been recorded.
C4_TotalBulletin ==
    status = "ready" =>
        /\ official_total_bulletins # << >> =>
               total_bulletin = Head(official_total_bulletins)
        /\ total_bulletin = auto_calculated_total <=> official_total_bulletins = << >>

\* two official totals that differ, the automatic total agreeing with the
\* second one and not with the first
C4_Witness ==
    /\ status = "ready"
    /\ Len(official_total_bulletins) = 2
    /\ official_total_bulletins[1] # official_total_bulletins[2]
    /\ auto_calculated_total.confirmed_cases = official_total_bulletins[2].confirmed_cases
    /\ auto_calculated_total.deaths = official_total_bulletins[2].deaths
    /\ is_complete(auto_calculated_total)
    /\ total_bulletin = official_total_bulletins[1]

\* C5: check_total_confirmed_cases and check_total_death_cases are false
\* without an official total; with official totals each is true if and only
\* if the automatic total's field equals that field of every official total,
\* so one official total that disagrees makes it false.
C5_Checks ==
    status = "ready" =>
        LET n == Len(official_total_bulletins)
            agreeCC == {i \in 1..n : official_total_bulletins[i].confirmed_cases
                                         = auto_calculated_total.confirmed_cases}
            agreeD == {i \in 1..n : official_total_bulletins[i].deaths
                                        = auto_calculated_total.deaths}
        IN  /\ n = 0 => ~check_total_confirmed_cases /\ ~check_total_death_cases
            /\ n > 0 => (check_total_confirmed_cases <=> Cardinality(agreeCC) = n)
            /\ n > 0 => (check_total_death_cases <=> Cardinality(agreeD) = n)

\* two official totals, the first agreeing with the automatic total on the
\* confirmed cases and the second not: the check is false
C5_Witness ==
    /\ status = "ready"
    /\ Len(official_total_bulletins) = 2
    /\ has_confirmed_cases(auto_calculated_total)
    /\ official_total_bulletins[1].confirmed_cases = auto_calculated_total.confirmed_cases
    /\ official_total_bulletins[2].confirmed_cases # auto_calculated_total.confirmed_cases
    /\ ~check_total_confirmed_cases
    /\ check_total_death_cases

\* the two bulletins of a collision report the same field with different counts
Disagree(a, b) ==
    \/ a.deaths # None /\ b.deaths # None /\ a.deaths # b.deaths
    \/ a.confirmed_cases # None /\ b.confirmed_cases # None
           /\ a.confirmed_cases # b.confirmed_cases

\* C6: when a county bulletin is ingested for a county that has a stored
\* bulletin and the two report deaths, or confirmed cases, with different
\* counts, the report holds a SOURCES_DONT_MATCH warning afterwards, whichever
\* bulletin ends up stored.
C6_DisagreementWarned ==
    [][ /\ last'.op = "add"
        /\ last'.arg.kind = "county"
        /\ county_bulletins[last'.arg.city] # NoBulletin
        /\ Disagree(county_bulletins[last'.arg.city], last'.arg)
        => "SOURCES_DONT_MATCH" \in warnings' ]_vars

\* a complete bulletin was kept against a complete one that disagrees with
\* it, and the first warning of the report was raised for it
C6_Witness ==
    /\ Collision
    /\ is_complete(last.existent)
    /\ is_complete(last.arg)
    /\ Disagree(last.existent, last.arg)
    /\ county_bulletins[last.arg.city] = last.existent
    /\ warnings = {"SOURCES_DONT_MATCH"}

\* C7: ingesting a county bulletin equal in value to the one stored for its
\* county adds no warning and leaves the stored bulletins and the automatic
\* total as they were.
C7_EqualIsNoOp ==
    [][ /\ last'.op = "add"
        /\ last'.arg.kind = "county"
        /\ county_bulletins[last'.arg.city] # NoBulletin
        /\ county_bulletins[last'.arg.city].confirmed_cases = last'.arg.confirmed_cases
        /\ county_bulletins[last'.arg.city].deaths = last'.arg.deaths
        => /\ warnings' = warnings
           /\ county_bulletins' = county_bulletins
           /\ auto_calculated_total' = auto_calculated_total ]_vars

\* a partial bulletin with a count above zero was ingested a second time,
\* next to another stored county
C7_Witness ==
    /\ Collision
    /\ last.existent = last.arg
    /\ ~is_complete(last.arg)
    /\ ValOf(last.arg.confirmed_cases) > 0
    /\ StoredCounties = Cities
    /\ county_bulletins[last.arg.city] = last.arg
    /\ auto_calculated_total.confirmed_cases = StoredConfirmedCases

\* C8: on a collision the stored bulletin is the existing one if it is
\* complete, else the incoming one if that is complete, else the existing one
\* with its missing fields taken from the incoming one and its present fields
\* kept.
C8_StoredAfterCollision ==
    Collision =>
        LET e == last.existent
            n == last.arg
            stored == county_bulletins[n.city]
        IN  IF e.confirmed_cases # None /\ e.deaths # None THEN stored = e
            ELSE IF n.confirmed_cases # None /\ n.deaths # None THEN stored = n
            ELSE /\ stored.city = e.city
                 /\ stored.confirmed_cases =
                        IF e.confirmed_cases # None THEN e.confirmed_cases
                        ELSE n.confirmed_cases
                 /\ stored.deaths = IF e.deaths # None THEN e.deaths ELSE n.deaths

\* two partial bulletins, one with the confirmed cases and the other with
\* the deaths, gave one complete stored bulletin
C8_Witness ==
    /\ Collision
    /\ has_confirmed_cases(last.existent) /\ ~has_deaths(last.existent)
    /\ ~has_confirmed_cases(last.arg) /\ has_deaths(last.arg)
    /\ county_bulletins[last.arg.city].confirmed_cases = last.existent.confirmed_cases
    /\ county_bulletins[last.arg.city].deaths = last.arg.deaths

\* none of the conditions of the automatic detection holds
NoConditionTriggers ==
    /\ ~("COUNTY_BULLETINS" \in qualities /\ StoredCounties = {})
    /\ ~("UNDEFINED_OR_IMPORTED_CASES" \in qualities
            /\ is_empty(undefined_or_imported_cases_bulletin))
    /\ "ONLY_TOTAL" \notin qualities
    /\ official_total_bulletins # << >>
    /\ Head(official_total_bulletins).confirmed_cases # None
    /\ Head(official_total_bulletins).deaths # None
    /\ \/ is_empty(auto_calculated_total)
       \/ \A i \in DOMAIN official_total_bulletins :
              /\ official_total_bulletins[i].confirmed_cases =
                     auto_calculated_total.confirmed_cases
              /\ official_total_bulletins[i].deaths = auto_calculated_total.deaths

\* C9 as claimed: warnings_slug is the empty string whenever no warning
\* condition triggers in the state it is read in, whatever calls came before.
C9_EmptyWhenNothingTriggers ==
    last.op = "slug" /\ NoConditionTriggers => slug = ""

\* C9: warnings_slug is the empty string when no warning condition triggers
\* in the state it is read in and no warning was recorded before the read
\* (by an earlier read or by a collision of county bulletins that disagree).
C9_EmptyWhenNothingRecorded ==
    [][ last'.op = "slug" /\ warnings = {} /\ NoConditionTriggers => slug' = "" ]_vars

\* a read of the empty slug on a report holding a county bulletin, an
\* imported/undefined bulletin and an official total that matches their sum
C9_Witness ==
    /\ last.op = "slug"
    /\ StoredCounties # {}
    /\ ~is_empty(undefined_or_imported_cases_bulletin)
    /\ is_complete(auto_calculated_total)
    /\ NoConditionTriggers
    /\ slug = ""
    /\ warnings = {}

RECURSIVE SlugFrom(_, _)
\* "__" and the slug, for each warning type of w from the i-th on, ascending
SlugFrom(i, w) ==
    IF i > Len(WarningOrder) THEN ""
    ELSE (IF WarningOrder[i] \in w THEN "__" \o WarningOrder[i] ELSE "")
             \o SlugFrom(i + 1, w)

\* C10: a second read of warnings_slug with no ingestion in between returns
\* the same string and records no new warning; the string read is empty or
\* "__" followed by the recorded warning types, ascending, each once, joined
\* by "__".
C10_SlugStableAndSorted ==
    /\ [](last.op = "slug" => slug = SlugFrom(1, warnings))
    /\ [][ last.op = "slug" /\ last'.op = "slug"
               => slug' = slug /\ warnings' = warnings ]_vars

\* a second read in a row, of a slug of three warning types, among them
\* the one a collision recorded
C10_Witness ==
    /\ last.op = "slug"
    /\ last.prev = "slug"
    /\ slug = "__MISSING_IMPORTED_UNDEFINED_CASES__NO_OFFICIAL_TOTAL__SOURCES_DONT_MATCH"

\* the counties whose stored bulletin reports a count
NonEmptyCounties ==
    {c \in StoredCounties :
        county_bulletins[c].confirmed_cases # None \/ county_bulletins[c].deaths # None}

\* C11: to_csv_rows gives one row for each stored county bulletin that is not
\* empty, in ascending order of the county name, then one row for the
\* imported/undefined bulletin even when it is empty, then one row for
\* total_bulletin: the non-empty stored county bulletins plus two rows.
C11_Rows ==
    status = "ready" =>
        LET rows == to_csv_rows
            n == Cardinality(NonEmptyCounties)
            total == IF official_total_bulletins # << >>
                     THEN official_total_bulletins[1]
                     ELSE auto_calculated_total
        IN  /\ Len(rows) = n + 2
            /\ \A i \in 1..n :
                   /\ rows[i].municipio \in NonEmptyCounties
                   /\ rows[i].confirmados =
                          county_bulletins[rows[i].municipio].confirmed_cases
                   /\ rows[i].mortes = county_bulletins[rows[i].municipio].deaths
            /\ \A i, j \in 1..n :
                   i < j => CityRank(rows[i].municipio) < CityRank(rows[j].municipio)
            /\ rows[n + 1].municipio = "Importados/Indefinidos"
            /\ rows[n + 1].confirmados =
                   undefined_or_imported_cases_bulletin.confirmed_cases
            /\ rows[n + 1].mortes = undefined_or_imported_cases_bulletin.deaths
            /\ rows[n + 2].municipio = "TOTAL NO ESTADO"
            /\ rows[n + 2].confirmados = total.confirmed_cases
            /\ rows[n + 2].mortes = total.deaths

\* both counties stored, the later name first in the dictionary, with an
\* official total and an empty imported/undefined bulletin: four rows
C11_Witness ==
    /\ status = "ready"
    /\ county_keys = << "Bujari", "Acrelandia" >>
    /\ NonEmptyCounties = Cities
    /\ official_total_bulletins # << >>
    /\ is_empty(undefined_or_imported_cases_bulletin)
    /\ Len(to_csv_rows) = 4
    /\ to_csv_rows[1].municipio = "Acrelandia"
    /\ to_csv_rows[4].confirmados = official_total_bulletins[1].confirmed_cases

\* the automatic total has the counts of every official total, and there is one
TotalsAgree ==
    /\ official_total_bulletins # << >>
    /\ \A i \in DOMAIN official_total_bulletins :
           /\ official_total_bulletins[i].confirmed_cases =
                  auto_calculated_total.confirmed_cases
           /\ official_total_bulletins[i].deaths = auto_calculated_total.deaths

\* C12: when the automatic total equals every official total on both counts
\* and warnings_slug is read for the first time, after the ingestion, both
\* checks are true and the slug read holds neither NO_OFFICIAL_TOTAL nor
\* TOTAL_DONT_MATCH.
C12_AgreeingTotals ==
    [][ last'.op = "slug" /\ last.reads = 0 /\ TotalsAgree
            => /\ check_total_confirmed_cases
               /\ check_total_death_cases
               /\ slug' = SlugFrom(1, warnings')
               /\ "NO_OFFICIAL_TOTAL" \notin warnings'
               /\ "TOTAL_DONT_MATCH" \notin warnings' ]_vars

\* a county bulletin, an imported/undefined bulletin and an official total
\* equal to their sum, then the first read: three rows, the county's, the
\* imported/undefined one and the total
C12_Witness ==
    /\ last.op = "slug"
    /\ last.reads = 1
    /\ NonEmptyCounties = {"Acrelandia"}
    /\ is_complete(undefined_or_imported_cases_bulletin)
    /\ ValOf(undefined_or_imported_cases_bulletin.confirmed_cases) > 0
    /\ Len(official_total_bulletins) = 1
    /\ TotalsAgree
    /\ check_total_confirmed_cases /\ check_total_death_cases
    /\ "NO_OFFICIAL_TOTAL" \notin warnings /\ "TOTAL_DONT_MATCH" \notin warnings
    /\ Len(to_csv_rows) = 3
    /\ to_csv_rows[1].municipio = "Acrelandia"
    /\ to_csv_rows[2].municipio = "Importados/Indefinidos"
    /\ to_csv_rows[3] = to_csv_row(official_total_bulletins[1])

\* C13: ingesting a total bulletin changes neither the automatic total, the
\* stored county bulletins nor the imported/undefined bulletin; one that is
\* not empty is appended to the official totals and an empty one changes
\* nothing, so every official total is non-empty and the official totals are
\* in the order of their ingestion.
C13_OfficialTotals ==
    /\ [](\A i \in DOMAIN official_total_bulletins :
              \/ official_total_bulletins[i].confirmed_cases # None
              \/ official_total_bulletins[i].deaths # None)
    /\ [][ last'.op = "add" /\ last'.arg.kind = "total"
               => /\ auto_calculated_total' = auto_calculated_total
                  /\ county_bulletins' = county_bulletins
                  /\ county_keys' = county_keys
                  /\ undefined_or_imported_cases_bulletin' =
                         undefined_or_imported_cases_bulletin
                  /\ warnings' = warnings
                  /\ official_total_bulletins' =
                         IF last'.arg.confirmed_cases = None /\ last'.arg.deaths = None
                         THEN official_total_bulletins
                         ELSE official_total_bulletins \o << last'.arg >> ]_vars

\* two official totals that differ, in the order they came in, and an empty
\* total bulletin ingested after them
C13_Witness ==
    /\ last.op = "add"
    /\ last.arg.kind = "total"
    /\ is_empty(last.arg)
    /\ Len(official_total_bulletins) = 2
    /\ is_complete(official_total_bulletins[1])
    /\ ~is_complete(official_total_bulletins[2])

\* C14: add_new_bulletin with an argument that is none of the three bulletin
\* classes raises no error and leaves the county bulletins, the
\* imported/undefined bulletin, the official totals, the automatic total and
\* the warnings as they were.
C14_OtherIgnored ==
    [][ last'.op = "add" /\ last'.arg.kind \notin {"county", "imported", "total"}
            => /\ status' = "ready"
               /\ county_bulletins' = county_bulletins
               /\ county_keys' = county_keys
               /\ undefined_or_imported_cases_bulletin' =
                      undefined_or_imported_cases_bulletin
               /\ official_total_bulletins' = official_total_bulletins
               /\ auto_calculated_total' = auto_calculated_total
               /\ warnings' = warnings ]_vars

\* an object that is no bulletin handed to a report that holds a county
\* bulletin and an official total
C14_Witness ==
    /\ last.op = "add"
    /\ last.arg = OtherObject
    /\ status = "ready"
    /\ NonEmptyCounties # {}
    /\ official_total_bulletins # << >>
    /\ ~is_empty(auto_calculated_total)

\* C15: add_new_bulletin with an imported/undefined bulletin B makes B the
\* stored imported/undefined bulletin and raises each field of the automatic
\* total by B's value of that field when B has one, whatever bulletin B
\* replaces: nothing is taken out of the total for the replaced one, so after
\* B1 and then B2 the total holds the counts of both while only B2 is stored.
C15_ImportedAccumulates ==
    [][ last'.op = "add" /\ last'.arg.kind = "imported"
            => /\ undefined_or_imported_cases_bulletin' = last'.arg
               /\ auto_calculated_total'.confirmed_cases =
                      IF last'.arg.confirmed_cases = None
                      THEN auto_calculated_total.confirmed_cases
                      ELSE ValOf(auto_calculated_total.confirmed_cases)
                               + last'.arg.confirmed_cases
               /\ auto_calculated_total'.deaths =
                      IF last'.arg.deaths = None
                      THEN auto_calculated_total.deaths
                      ELSE ValOf(auto_calculated_total.deaths) + last'.arg.deaths ]_vars

\* a second imported/undefined bulletin with counts has replaced a first one
\* with counts: the total holds both, the report holds the second
C15_Witness ==
    /\ last.op = "add"
    /\ last.arg.kind = "imported"
    /\ last.prev = "add"
    /\ undefined_or_imported_cases_bulletin = last.arg
    /\ last.arg.confirmed_cases = MaxVal
    /\ last.arg.deaths = MaxVal
    /\ auto_calculated_total.confirmed_cases = 2 * MaxVal
    /\ auto_calculated_total.deaths = 2 * MaxVal

\* some official total differs from the automatic total in a field
OfficialTotalDiffers ==
    \E i \in DOMAIN official_total_bulletins :
        \/ official_total_bulletins[i].confirmed_cases
               # auto_calculated_total.confirmed_cases
        \/ official_total_bulletins[i].deaths # auto_calculated_total.deaths

\* C16: one pass of the automatic detection records NO_OFFICIAL_TOTAL exactly
\* when no official total is stored, and TOTAL_DONT_MATCH exactly when an
\* official total is stored, the automatic total is not empty and one of the
\* two checks fails; one pass never records both, and a report with official
\* totals and an empty automatic total does not carry TOTAL_DONT_MATCH.
C16_TotalWarnings ==
    /\ [][ last'.op = "slug"
               => /\ "NO_OFFICIAL_TOTAL" \in warnings'
                      <=> \/ "NO_OFFICIAL_TOTAL" \in warnings
                          \/ official_total_bulletins = << >>
                  /\ "TOTAL_DONT_MATCH" \in warnings'
                      <=> \/ "TOTAL_DONT_MATCH" \in warnings
                          \/ /\ official_total_bulletins # << >>
                             /\ \/ auto_calculated_total.confirmed_cases # None
                                \/ auto_calculated_total.deaths # None
                             /\ OfficialTotalDiffers
                  /\ ~({"NO_OFFICIAL_TOTAL", "TOTAL_DONT_MATCH"}
                           \subseteq warnings' \ warnings) ]_vars
    /\ [](official_total_bulletins # << >>
              /\ auto_calculated_total.confirmed_cases = None
              /\ auto_calculated_total.deaths = None
              => "TOTAL_DONT_MATCH" \notin warnings)

\* a read of a report whose official total differs from a non-empty
\* automatic total, after an earlier read found no official total
C16_Witness ==
    /\ last.op = "slug"
    /\ last.reads = 2
    /\ official_total_bulletins # << >>
    /\ ~is_empty(auto_calculated_total)
    /\ OfficialTotalDiffers
    /\ {"NO_OFFICIAL_TOTAL", "TOTAL_DONT_MATCH"} \subseteq warnings

\* C17: no step takes a warning kind out of the report, and the kinds of
\* every slug returned by warnings_slug include the kinds of the slug
\* returned before it, whatever add_new_bulletin calls came between: a kind
\* recorded while its condition held stays after the condition has gone.
C17_WarningsKept ==
    /\ [][ status = "ready" => warnings \subseteq warnings' ]_vars
    /\ [][ last'.op = "slug"
               => /\ slug' = SlugOf(warnings')
                  /\ last.reads > 0
                         => \E w \in SUBSET warnings' : slug = SlugOf(w) ]_vars

\* NO_OFFICIAL_TOTAL and MISSING_COUNTY_BULLETINS read before any ingestion
\* are in the slug read after a county bulletin and an official total came in
C17_Witness ==
    /\ last.op = "slug"
    /\ last.reads = 2
    /\ official_total_bulletins # << >>
    /\ NonEmptyCounties # {}
    /\ {"NO_OFFICIAL_TOTAL", "MISSING_COUNTY_BULLETINS"} \subseteq warnings
    /\ DetectedWarnings \cap {"NO_OFFICIAL_TOTAL", "MISSING_COUNTY_BULLETINS"} = {}
    /\ slug = SlugOf(warnings)

\* the county has a key in the dict of county bulletins
HasKey(keys, c) == \E i \in DOMAIN keys : keys[i] = c

\* C18: per county the stored data only gets more complete: a county once
\* stored stays stored, a field its stored bulletin has is there after every
\* later step, and once its stored bulletin is complete no later step changes
\* its confirmed cases or its deaths.
C18_CountyOnlyGrows ==
    [][ \A c \in Cities :
            /\ county_bulletins[c] # NoBulletin
                   => county_bulletins'[c] # NoBulletin
            /\ HasKey(county_keys, c) => HasKey(county_keys', c)
            /\ county_bulletins[c].confirmed_cases # None
                   => county_bulletins'[c].confirmed_cases # None
            /\ county_bulletins[c].deaths # None
                   => county_bulletins'[c].deaths # None
            /\ county_bulletins[c].confirmed_cases # None
                   /\ county_bulletins[c].deaths # None
                   => /\ county_bulletins'[c].confirmed_cases
                             = county_bulletins[c].confirmed_cases
                      /\ county_bulletins'[c].deaths = county_bulletins[c].deaths ]_vars

\* a bulletin with one field, and a different value of it, came in for a
\* county whose stored bulletin was complete: the stored values stayed
C18_Witness ==
    /\ Collision
    /\ last.existent.confirmed_cases # None
    /\ last.existent.deaths # None
    /\ last.arg.confirmed_cases # None
    /\ last.arg.deaths = None
    /\ last.arg.confirmed_cases # last.existent.confirmed_cases
    /\ county_bulletins[last.arg.city].confirmed_cases = last.existent.confirmed_cases
    /\ county_bulletins[last.arg.city].deaths = last.existent.deaths

\* C19: the official totals only grow at the end, so from the first official
\* total stored on, total_bulletin is that bulletin after every step: no
\* add_new_bulletin of any kind and no warnings_slug read changes which
\* bulletin it returns or the values of it.
C19_FirstTotalStays ==
    [][ /\ Len(official_total_bulletins') >= Len(official_total_bulletins)
        /\ \A i \in DOMAIN official_total_bulletins :
               official_total_bulletins'[i] = official_total_bulletins[i]
        /\ official_total_bulletins # << >>
               => /\ total_bulletin' = total_bulletin
                  /\ total_bulletin' = official_total_bulletins[1] ]_vars

\* a county bulletin came in after two official totals with different
\* counts: total_bulletin is the first of them
C19_Witness ==
    /\ last.op = "add"
    /\ last.arg.kind = "county"
    /\ ~is_empty(last.arg)
    /\ Len(official_total_bulletins) = 2
    /\ official_total_bulletins[1] # official_total_bulletins[2]
    /\ total_bulletin = official_total_bulletins[1]

\* C20: the automatic total never under-counts and is never negative: each
\* of its fields is at least the sum of that field over the stored county
\* bulletins plus the stored imported/undefined bulletin, and a county step
\* takes out of the total exactly what the county's stored bulletin had put
\* in, before it adds what the county's new stored bulletin holds.
C20_NeverUnderCounts ==
    /\ [](/\ ValOf(auto_calculated_total.confirmed_cases) >= 0
          /\ ValOf(auto_calculated_total.deaths) >= 0
          /\ ValOf(auto_calculated_total.confirmed_cases)
                 >= StoredConfirmedCases
                        + ValOf(undefined_or_imported_cases_bulletin.confirmed_cases)
          /\ ValOf(auto_calculated_total.deaths)
                 >= StoredDeaths + ValOf(undefined_or_imported_cases_bulletin.deaths))
    /\ [][ last'.op = "add" /\ last'.arg.kind = "county"
               => /\ ValOf(auto_calculated_total'.confirmed_cases) =
                         ValOf(auto_calculated_total.confirmed_cases)
                             - ValOf(county_bulletins[last'.arg.city].confirmed_cases)
                             + ValOf(county_bulletins'[last'.arg.city].confirmed_cases)
                  /\ ValOf(auto_calculated_total'.deaths) =
                         ValOf(auto_calculated_total.deaths)
                             - ValOf(county_bulletins[last'.arg.city].deaths)
                             + ValOf(county_bulletins'[last'.arg.city].deaths) ]_vars

\* a county's stored bulletin with counts was taken out and a fuller one put
\* in, in a report that also holds an imported/undefined bulletin with counts
C20_Witness ==
    /\ Collision
    /\ last.existent.confirmed_cases = MaxVal
    /\ county_bulletins[last.arg.city] # last.existent
    /\ undefined_or_imported_cases_bulletin.confirmed_cases = MaxVal
    /\ auto_calculated_total.confirmed_cases = 2 * MaxVal
    /\ auto_calculated_total.deaths = MaxVal

====
